---- MODULE Spec2Model ----
(***************************************************************************)
(* Model of the calendar planner of src/main.py: the in-memory store       *)
(* calendar_db, the extraction step (extract_event), the overlap scan      *)
(* (is_slot_free), the scheduling handler (add_event) and the alternative  *)
(* slot search (suggest_alternative).                                      *)
(*                                                                         *)
(* Time is counted in ticks of 30 minutes, so that one hour is two ticks   *)
(* and requests can fall on the half hour between two hour-aligned slots.  *)
(***************************************************************************)
EXTENDS Integers, Sequences, FiniteSets

\* ------------------------------------------------------------------ bounds

\* Latest start time (in ticks) the extraction step can return.
MaxTime == 7

\* Largest number of events the store is let to grow to.
MaxEvents == 3

\* Listing any list of events: the latest start time and the greatest length.
MaxKey == 1
MaxListLen == 3

\* --------------------------------------------------------------- constants

\* timedelta(hours=1), the default duration, in ticks of 30 minutes.
Hour == 2

\* range(1, 5) of suggest_alternative: first offset and exclusive stop.
RangeStart == 1
RangeStop == 5

\* ------------------------------------------------------------------ inputs

Time == 0..MaxTime

\* The timestamp text of a model output that is no valid datetime.
NotATime == -1

\* name and participants of the events the model output can describe.
Payloads ==
    { [name |-> "science fair", participants |-> <<"Alice", "Bob">>] }

Fields == {"name", "start_time", "participants"}

\* The texts the language model can answer with: a JSON object holding some
\* of the three keys (json = TRUE), or text that is no JSON at all.
WellFormedOutputs ==
    { [json |-> TRUE, keys |-> Fields, name |-> p.name, start_time |-> t,
       participants |-> p.participants] : p \in Payloads, t \in Time }

MalformedOutputs ==
    { [json |-> FALSE, keys |-> {}, name |-> "", start_time |-> NotATime,
       participants |-> <<>>],
      [json |-> TRUE, keys |-> {"name", "participants"}, name |-> "science fair",
       start_time |-> NotATime, participants |-> <<"Alice", "Bob">>],
      [json |-> TRUE, keys |-> Fields, name |-> "science fair",
       start_time |-> NotATime, participants |-> <<"Alice", "Bob">>] }

RawOutputs == WellFormedOutputs \cup MalformedOutputs

\* What client.chat.completions.create does: it returns a response whose
\* content is one of the texts above, or it raises (network, API error).
Responses ==
    { [kind |-> "content", raw |-> r] : r \in RawOutputs }
        \cup { [kind |-> "error"] }

\* ------------------------------------------------------------- data model

\* Python's None and a returned object, as a sequence of length 0 or 1.
None == <<>>

CalendarEvent(name, start_time, participants) ==
    [name |-> name, start_time |-> start_time, participants |-> participants]

\* CalendarEvent.model_validate_json: the event, or ValidationError (FALSE
\* in ok) on text that is no JSON, lacks a field or holds a bad timestamp.
model_validate_json(raw_output) ==
    IF /\ raw_output.json
       /\ Fields \subseteq raw_output.keys
       /\ raw_output.start_time \in Nat
    THEN [ok |-> TRUE,
          event |-> CalendarEvent(raw_output.name, raw_output.start_time,
                                  raw_output.participants)]
    ELSE [ok |-> FALSE]

\* ----------------------------------------------------------- extract_event

\* The call of the model is outside the try block: when it raises, the
\* exception leaves extract_event. A ValidationError is caught and printed.
extract_event(response) ==
    IF response.kind = "error"
    THEN [raised |-> TRUE, stdout |-> <<>>, value |-> None]
    ELSE LET raw_output == response.raw
             parsed == model_validate_json(raw_output)
         IN  IF parsed.ok
             THEN [raised |-> FALSE, stdout |-> <<>>, value |-> <<parsed.event>>]
             ELSE [raised |-> FALSE,
                   stdout |-> << [msg |-> "Validation error:"],
                                 [msg |-> "Raw output:", raw |-> raw_output] >>,
                   value |-> None]

\* ------------------------------------------------------------ is_slot_free

\* Faulty variant: the second test compares with the stored event's
\* start where its end is meant.
is_slot_free_start_for_end(db, new_event, duration) ==
    LET new_start == new_event.start_time
        new_end == new_start + duration
    IN  \A i \in 1..Len(db) :
            LET existing_start == db[i].start_time
            IN  new_end <= existing_start \/ new_start >= existing_start

\* Faulty variant: strict comparisons, so that touching intervals clash.
is_slot_free_strict(db, new_event, duration) ==
    LET new_start == new_event.start_time
        new_end == new_start + duration
    IN  \A i \in 1..Len(db) :
            LET existing_start == db[i].start_time
                existing_end == existing_start + duration
            IN  new_end < existing_start \/ new_start > existing_end

\* Faulty variant: "return True" inside the loop, so that only the first
\* stored event is compared.
is_slot_free_first_only(db, new_event, duration) ==
    LET new_start == new_event.start_time
        new_end == new_start + duration
    IN  \A i \in 1..Len(db) :
            LET existing_start == db[i].start_time
                existing_end == existing_start + duration
            IN  i = 1 => (new_end <= existing_start \/ new_start >= existing_end)

\* The loop returns False at the first stored event that overlaps, and True
\* when it has passed them all.
is_slot_free(db, new_event, duration) ==
    LET new_start == new_event.start_time
        new_end == new_start + duration
    IN  \A i \in 1..Len(db) :
            LET existing_start == db[i].start_time
                existing_end == existing_start + duration
            IN  new_end <= existing_start \/ new_start >= existing_end

\* ----------------------------------------------------- suggest_alternative

\* The for loop from offset i up to stop - 1: what it prints, and the
\* candidate starts it passed to is_slot_free, in order.
RECURSIVE suggest_loop(_, _, _, _, _)
suggest_loop(db, event, duration, i, stop) ==
    IF i >= stop
    THEN [stdout |-> <<>>, probed |-> <<>>]
    ELSE LET new_start == event.start_time
             candidate_start == new_start + i * Hour
             candidate_event ==
                 CalendarEvent(event.name, candidate_start, event.participants)
         IN  IF is_slot_free(db, candidate_event, duration)
             THEN [stdout |-> << [msg |-> "Suggested alternative:",
                                  t |-> candidate_start] >>,
                   probed |-> <<candidate_start>>]
             ELSE LET rest == suggest_loop(db, event, duration, i + 1, stop)
                  IN  [stdout |-> rest.stdout,
                       probed |-> <<candidate_start>> \o rest.probed]

\* Faulty variant: range(1, 6), five candidates as the loop's comment says.
suggest_alternative_five(db, event, duration) ==
    suggest_loop(db, event, duration, RangeStart, RangeStop + 1)

\* Faulty variant: range(0, 4), the request's own start comes first.
suggest_alternative_from_zero(db, event, duration) ==
    suggest_loop(db, event, duration, RangeStart - 1, RangeStop)

suggest_alternative(db, event, duration) ==
    suggest_loop(db, event, duration, RangeStart, RangeStop)

\* --------------------------------------------------------------- add_event

\* What one call leaves behind: the store after it, what it printed,
\* whether an exception left it, whether suggest_alternative was called and
\* the candidate starts that search examined.
Result(db, out, exc, srch, prb) ==
    [db |-> db, stdout |-> out, raised |-> exc, searched |-> srch,
     probed |-> prb]

\* Faulty variant: the return is missing and a placeholder is stored.
on_parse_failure_appends(db, got) ==
    Result(Append(db, CalendarEvent("", 0, <<>>)),
           got.stdout \o << [msg |-> "Could not parse event."] >>,
           FALSE, FALSE, <<>>)

\* "if not event": the request is dropped.
on_parse_failure(db, got) ==
    Result(db, got.stdout \o << [msg |-> "Could not parse event."] >>,
           FALSE, FALSE, <<>>)

\* Faulty variant: insert(0, event) in place of append(event).
on_free_prepends(db, event) ==
    Result(<<event>> \o db,
           << [msg |-> "Event added:", name |-> event.name,
               t |-> event.start_time,
               participants |-> event.participants] >>,
           FALSE, FALSE, <<>>)

\* The branch of a free slot: append and report.
on_free(db, event) ==
    Result(Append(db, event),
           << [msg |-> "Event added:", name |-> event.name,
               t |-> event.start_time,
               participants |-> event.participants] >>,
           FALSE, FALSE, <<>>)

\* Faulty variant: the suggested candidate is booked at once.
on_conflict_books_alternative(db, event, allow_plan) ==
    IF allow_plan
    THEN LET alt == suggest_alternative(db, event, Hour)
             booked == IF alt.stdout = <<>> THEN db
                       ELSE Append(db, CalendarEvent(event.name, alt.stdout[1].t,
                                                     event.participants))
         IN  Result(booked,
                    << [msg |-> "Slot already booked around",
                        t |-> event.start_time] >> \o alt.stdout,
                    FALSE, TRUE, alt.probed)
    ELSE Result(db,
                << [msg |-> "Could not add, slot taken at",
                    t |-> event.start_time] >>,
                FALSE, FALSE, <<>>)

\* Faulty variant: the warning is printed only along
\* with a suggestion.
on_conflict_warns_with_suggestion_only(db, event, allow_plan) ==
    IF allow_plan
    THEN LET alt == suggest_alternative(db, event, Hour)
         IN  Result(db,
                    IF alt.stdout = <<>> THEN <<>>
                    ELSE << [msg |-> "Slot already booked around",
                             t |-> event.start_time] >> \o alt.stdout,
                    FALSE, TRUE, alt.probed)
    ELSE Result(db,
                << [msg |-> "Could not add, slot taken at",
                    t |-> event.start_time] >>,
                FALSE, FALSE, <<>>)

\* Faulty variant: allow_plan is not consulted.
on_conflict_always_plans(db, event, allow_plan) ==
    LET alt == suggest_alternative(db, event, Hour)
    IN  Result(db,
               << [msg |-> "Slot already booked around",
                   t |-> event.start_time] >> \o alt.stdout,
               FALSE, TRUE, alt.probed)

\* Faulty variant: the search runs with a duration of half an hour.
on_conflict_half_hour_search(db, event, allow_plan) ==
    IF allow_plan
    THEN LET alt == suggest_alternative(db, event, Hour - 1)
         IN  Result(db,
                    << [msg |-> "Slot already booked around",
                        t |-> event.start_time] >> \o alt.stdout,
                    FALSE, TRUE, alt.probed)
    ELSE Result(db,
                << [msg |-> "Could not add, slot taken at",
                    t |-> event.start_time] >>,
                FALSE, FALSE, <<>>)

\* The else branch: the slot is taken.
on_conflict(db, event, allow_plan) ==
    IF allow_plan
    THEN LET alt == suggest_alternative(db, event, Hour)
         IN  Result(db,
                    << [msg |-> "Slot already booked around",
                        t |-> event.start_time] >> \o alt.stdout,
                    FALSE, TRUE, alt.probed)
    ELSE Result(db,
                << [msg |-> "Could not add, slot taken at",
                    t |-> event.start_time] >>,
                FALSE, FALSE, <<>>)

\* Faulty variant: the append is outside the if, so a clashing event
\* is stored too.
add_event_appends_regardless(db, response, allow_plan) ==
    LET got == extract_event(response)
    IN  IF got.raised
        THEN Result(db, got.stdout, TRUE, FALSE, <<>>)
        ELSE IF got.value = None
        THEN on_parse_failure(db, got)
        ELSE LET event == got.value[1]
                 r == IF is_slot_free(db, event, Hour)
                      THEN on_free(db, event)
                      ELSE on_conflict(db, event, allow_plan)
             IN  Result(Append(db, event), r.stdout, r.raised, r.searched,
                        r.probed)

\* The handler as a function of the store, the model's response and
\* allow_plan. is_slot_free and suggest_alternative run with their default
\* duration of one hour.
add_event(db, response, allow_plan) ==
    LET got == extract_event(response)
    IN  IF got.raised
        THEN Result(db, got.stdout, TRUE, FALSE, <<>>)
        ELSE IF got.value = None
        THEN on_parse_failure(db, got)
        ELSE LET event == got.value[1]
             IN  IF is_slot_free(db, event, Hour)
                 THEN on_free(db, event)
                 ELSE on_conflict(db, event, allow_plan)

\* ------------------------------------------------------------- view_events

\* strftime('%Y-%m-%d %H:%M') of a start time: its day, hour and minute.
strftime(t) ==
    [date |-> t \div (24 * Hour),
     hh |-> (t % (24 * Hour)) \div Hour,
     mm |-> (t % Hour) * (60 \div Hour)]

\* sep.join(words)
RECURSIVE join(_, _)
join(sep, words) ==
    IF words = <<>> THEN ""
    ELSE IF Len(words) = 1 THEN words[1]
    ELSE words[1] \o sep \o join(sep, Tail(words))

\* Faulty variant: an event goes before the events of the same start_time.
place_before_equals(srt, e) ==
    LET k == Cardinality({i \in 1..Len(srt) :
                             srt[i].start_time < e.start_time})
    IN  SubSeq(srt, 1, k) \o <<e>> \o SubSeq(srt, k + 1, Len(srt))

\* One step of a stable sort: e, which came later in the list than all of
\* srt, goes behind every event whose start_time is not greater than its own.
place(srt, e) ==
    LET k == Cardinality({i \in 1..Len(srt) :
                             srt[i].start_time <= e.start_time})
    IN  SubSeq(srt, 1, k) \o <<e>> \o SubSeq(srt, k + 1, Len(srt))

\* sorted(db, key=lambda x: x.start_time): a new list, ascending and stable.
RECURSIVE sorted_by_start_time(_)
sorted_by_start_time(db) ==
    IF db = <<>> THEN <<>>
    ELSE place(sorted_by_start_time(SubSeq(db, 1, Len(db) - 1)), db[Len(db)])

\* The line view_events prints for one event.
listing_line(e) ==
    [msg |-> "-", name |-> e.name, at |-> strftime(e.start_time),
     with |-> join(", ", e.participants)]

\* Faulty variant: calendar_db.sort(...) in place of sorted(calendar_db, ...).
view_events_sorts_in_place(db) ==
    IF db = <<>>
    THEN [db |-> db, stdout |-> << [msg |-> "No events scheduled."] >>]
    ELSE LET srt == sorted_by_start_time(db)
         IN  [db |-> srt,
              stdout |-> [k \in 1..Len(srt) |-> listing_line(srt[k])]]

\* The store after the call (the store it was given) and what it printed.
view_events(db) ==
    IF db = <<>>
    THEN [db |-> db, stdout |-> << [msg |-> "No events scheduled."] >>]
    ELSE LET srt == sorted_by_start_time(db)
         IN  [db |-> db,
              stdout |-> [k \in 1..Len(srt) |-> listing_line(srt[k])]]

\* ------------------------------------------------------------------- state

VARIABLES
    calendar_db,   \* the module-level list of stored events
    stdout,        \* the lines the last call printed
    raised,        \* whether an exception left the last call
    call,          \* the last call: its operation and inputs
    pre_db,        \* calendar_db as it was when the last call began
    searched,      \* whether the last call invoked suggest_alternative
    probed,        \* the candidate starts that search examined, in order
    prev,          \* the call before the last: its operation, and the
                   \* listing or suggested time the last call follows up
    threads        \* the add_event calls in progress when calls run
                   \* concurrently: whether lines 72-73 run under a lock,
                   \* and each call's position, event and scan result

vars ==
    <<calendar_db, stdout, raised, call, pre_db, searched, probed, prev,
      threads>>

\* No call is in progress between the calls of the sequential program.
NoThreads == [locked |-> TRUE, req |-> <<>>]

\* What is kept of a call c that printed out, once the call nxt follows it:
\* its listing when nxt lists again, its suggested time when nxt is a
\* request for that very time, its operation otherwise.
Memo(c, out, nxt) ==
    IF c.op = "view_events" /\ nxt.op = "view_events"
    THEN [op |-> c.op, listing |-> out]
    ELSE IF /\ Len(out) = 2
            /\ out[2].msg = "Suggested alternative:"
            /\ nxt.op = "add_event"
            /\ nxt.response.kind = "content"
            /\ nxt.response.raw.json
            /\ nxt.response.raw.start_time = out[2].t
    THEN [op |-> c.op, suggested |-> out[2].t]
    ELSE [op |-> c.op]

Init ==
    /\ calendar_db = <<>>
    /\ stdout = <<>>
    /\ raised = FALSE
    /\ call = [op |-> "none"]
    /\ pre_db = <<>>
    /\ searched = FALSE
    /\ probed = <<>>
    /\ prev = [op |-> "none"]
    /\ threads = NoThreads

\* One call add_event(user_text, allow_plan): the language model's answer to
\* user_text is any of Responses.
AddEvent(response, allow_plan) ==
    LET r == add_event(calendar_db, response, allow_plan)
    IN  /\ Len(r.db) <= MaxEvents
        /\ calendar_db' = r.db
        /\ stdout' = r.stdout
        /\ raised' = r.raised
        /\ searched' = r.searched
        /\ probed' = r.probed
        /\ pre_db' = calendar_db
        /\ call' = [op |-> "add_event", response |-> response,
                    allow_plan |-> allow_plan]
        /\ prev' = Memo(call, stdout, call')
        /\ UNCHANGED threads

\* One call view_events().
ViewEvents ==
    LET r == view_events(calendar_db)
    IN  /\ calendar_db' = r.db
        /\ stdout' = r.stdout
        /\ raised' = FALSE
        /\ searched' = FALSE
        /\ probed' = <<>>
        /\ pre_db' = calendar_db
        /\ call' = [op |-> "view_events"]
        /\ prev' = Memo(call, stdout, call')
        /\ UNCHANGED threads

Next ==
    \/ \E response \in Responses, allow_plan \in BOOLEAN :
           AddEvent(response, allow_plan)
    \/ ViewEvents

Spec == Init /\ [][Next]_vars

\* ------------------------------------------------ listing any list at all

\* The events of the lists below: two names, so that events of one
\* start_time can be told apart.
ListEvents ==
    { CalendarEvent(n, t, <<"Alice", "Bob">>) :
          n \in {"science fair", "Team meeting"}, t \in 0..MaxKey }

Lists == UNION { [1..n -> ListEvents] : n \in 0..MaxListLen }

\* view_events as a function of the list it is given: calendar_db is any
\* list of events, also one with equal start times.
ListInit ==
    /\ calendar_db \in Lists
    /\ stdout = <<>>
    /\ raised = FALSE
    /\ call = [op |-> "none"]
    /\ pre_db = <<>>
    /\ searched = FALSE
    /\ probed = <<>>
    /\ prev = [op |-> "none"]
    /\ threads = NoThreads

ListNext == ViewEvents

ListSpec == ListInit /\ [][ListNext]_vars

\* ----------------------------------------- two add_event calls at a time

Threads == {1, 2}

\* The events of the two requests: extraction has succeeded for both.
RequestEvents ==
    { model_validate_json(r).event : r \in WellFormedOutputs }

\* Two calls are at line 72, the store is empty; lines 72-73 run under a
\* lock (locked) or without one.
ConcInit ==
    /\ calendar_db = <<>>
    /\ stdout = <<>>
    /\ raised = FALSE
    /\ call = [op |-> "none"]
    /\ pre_db = <<>>
    /\ searched = FALSE
    /\ probed = <<>>
    /\ prev = [op |-> "none"]
    /\ \E locked \in BOOLEAN, e1, e2 \in RequestEvents :
           threads = [locked |-> locked,
                      req |-> << [pc |-> "scan", event |-> e1, seen |-> 0],
                                 [pc |-> "scan", event |-> e2, seen |-> 0] >>]

\* Line 72 alone: the scan of the store as it is now. seen keeps how many
\* events the scan read.
Scan(i) ==
    /\ ~threads.locked
    /\ threads.req[i].pc = "scan"
    /\ threads' =
           [threads EXCEPT
               !.req[i].pc =
                   IF is_slot_free(calendar_db, threads.req[i].event, Hour)
                   THEN "insert" ELSE "done",
               !.req[i].seen = Len(calendar_db)]
    /\ UNCHANGED <<calendar_db, stdout, raised, call, pre_db, searched,
                   probed, prev>>

\* Line 73 alone: the append that follows a scan that found the slot free.
Insert(i) ==
    /\ ~threads.locked
    /\ threads.req[i].pc = "insert"
    /\ calendar_db' = Append(calendar_db, threads.req[i].event)
    /\ threads' = [threads EXCEPT !.req[i].pc = "inserted"]
    /\ UNCHANGED <<stdout, raised, call, pre_db, searched, probed, prev>>

\* Lines 72-73 as one critical section.
ScanInsert(i) ==
    /\ threads.locked
    /\ threads.req[i].pc = "scan"
    /\ IF is_slot_free(calendar_db, threads.req[i].event, Hour)
       THEN /\ calendar_db' = Append(calendar_db, threads.req[i].event)
            /\ threads' = [threads EXCEPT !.req[i].pc = "inserted",
                                          !.req[i].seen = Len(calendar_db)]
       ELSE /\ calendar_db' = calendar_db
            /\ threads' = [threads EXCEPT !.req[i].pc = "done",
                                          !.req[i].seen = Len(calendar_db)]
    /\ UNCHANGED <<stdout, raised, call, pre_db, searched, probed, prev>>

ConcNext ==
    \E i \in Threads : Scan(i) \/ Insert(i) \/ ScanInsert(i)

ConcSpec == ConcInit /\ [][ConcNext]_vars

\* ------------------------------------------------- vocabulary of the claims

\* The half-open intervals [a, a + 1h) and [b, b + 1h) share an instant.
Overlap(a_start, b_start) ==
    a_start < b_start + Hour /\ b_start < a_start + Hour

\* A one-hour slot starting at t overlaps no event of db.
FreeIn(db, t) ==
    \A i \in 1..Len(db) : ~Overlap(t, db[i].start_time)

IsAddEvent == call.op = "add_event"

\* The last call's extraction produced an event.
Extracted ==
    /\ IsAddEvent
    /\ call.response.kind = "content"
    /\ model_validate_json(call.response.raw).ok

\* That event (read only where Extracted holds).
Requested == model_validate_json(call.response.raw).event

\* The last call's request collided with an event stored before it.
Conflicted == Extracted /\ ~FreeIn(pre_db, Requested.start_time)

\* The messages of the last call, without the values they carry.
Signal == [k \in 1..Len(stdout) |-> stdout[k].msg]

\* The outcome the caller reads from what the call printed.
Outcome ==
    IF raised THEN "Fault"
    ELSE IF Signal = <<"Event added:">> THEN "Scheduled"
    ELSE IF Signal = <<"Slot already booked around", "Suggested alternative:">>
    THEN "ConflictedWithSuggestion"
    ELSE IF Signal \in { <<"Slot already booked around">>,
                         <<"Could not add, slot taken at">> }
    THEN "ConflictedNoSuggestion"
    ELSE IF Signal = <<"Validation error:", "Raw output:",
                       "Could not parse event.">>
    THEN "ParseFailure"
    ELSE "Silent"

\* The k-th candidate of the alternative search for a request starting at s.
Candidate(s, k) == s + k * Hour

\* All four candidates after the last request are taken.
AllFourTaken ==
    \A k \in 1..4 : ~FreeIn(pre_db, Candidate(Requested.start_time, k))

\* ------------------------------------------------------------------ claims

\* C1: after any sequence of add_event calls from the empty store, any two
\* distinct stored events occupy non-overlapping one-hour intervals.
C1_NonOverlap ==
    \A i, j \in 1..Len(calendar_db) :
        i # j =>
            \/ calendar_db[i].start_time + Hour <= calendar_db[j].start_time
            \/ calendar_db[j].start_time + Hour <= calendar_db[i].start_time

\* A store of three events, the last call having been turned away for a clash.
C1_Witness ==
    /\ Len(calendar_db) = 3
    /\ Conflicted
    /\ calendar_db = pre_db

\* C2: add_event appends the extracted event if and only if extraction
\* succeeded and the event overlaps no stored event; an append is reported
\* as Scheduled and adds exactly that event; an overlap is reported as a
\* conflict and adds nothing.
C2_AppendIffFree ==
    IsAddEvent =>
        /\ (calendar_db # pre_db)
               <=> (Extracted /\ FreeIn(pre_db, Requested.start_time))
        /\ (Extracted /\ FreeIn(pre_db, Requested.start_time))
               => /\ calendar_db = Append(pre_db, Requested)
                  /\ Outcome = "Scheduled"
        /\ Conflicted
               => /\ calendar_db = pre_db
                  /\ Outcome \in {"ConflictedWithSuggestion",
                                  "ConflictedNoSuggestion"}

\* An event was appended to a store that already held two.
C2_Witness ==
    /\ Extracted
    /\ Len(pre_db) = 2
    /\ calendar_db = Append(pre_db, Requested)
    /\ Outcome = "Scheduled"

\* C3: a call that ends in ParseFailure or in Unresolved (a conflict with no
\* suggestion) leaves calendar_db as it was, in content and order.
C3_NoCommitOnRejection ==
    (IsAddEvent /\ Outcome \in {"ParseFailure", "ConflictedNoSuggestion"})
        => calendar_db = pre_db

\* A parse failure on a store that holds events.
C3_Witness ==
    /\ IsAddEvent
    /\ Outcome = "ParseFailure"
    /\ Len(pre_db) >= 2
    /\ calendar_db = pre_db

\* C4: when a conflicted request with allow_plan finds an alternative, the
\* alternative is only reported: neither the request nor the suggested
\* candidate is inserted, the store after the call is the store before it.
C4_SuggestionNotBooked ==
    (IsAddEvent /\ Outcome = "ConflictedWithSuggestion")
        => /\ Conflicted
           /\ call.allow_plan
           /\ calendar_db = pre_db

\* A suggestion was reported on a store holding events.
C4_Witness ==
    /\ IsAddEvent
    /\ call.allow_plan
    /\ Conflicted
    /\ Outcome = "ConflictedWithSuggestion"
    /\ Len(calendar_db) >= 1

C7_AlwaysAnOutcome ==
    IsAddEvent =>
        /\ ~raised
        /\ Outcome \in {"Scheduled", "ConflictedWithSuggestion",
                        "ConflictedNoSuggestion", "ParseFailure"}

C9_NoPlanNoSearch ==
    (Conflicted /\ ~call.allow_plan) =>
        /\ ~searched
        /\ probed = <<>>
        /\ \A n \in 1..Len(stdout) : stdout[n].msg # "Suggested alternative:"
        /\ Outcome = "ConflictedNoSuggestion"
        /\ calendar_db = pre_db

\* A collision without allow_plan where a search would have found a slot.
C9_Witness ==
    /\ Conflicted
    /\ ~call.allow_plan
    /\ ~AllFourTaken
    /\ Signal = <<"Could not add, slot taken at">>

\* The last request touches a stored event: it starts exactly where one
\* ends, or ends exactly where one starts.
Touches ==
    \E i \in 1..Len(pre_db) :
        \/ Requested.start_time = pre_db[i].start_time + Hour
        \/ Requested.start_time + Hour = pre_db[i].start_time

\* C10: an event that touches a stored event and overlaps none is accepted:
\* it is Scheduled and inserted.
C10_TouchAccepted ==
    (Extracted /\ Touches /\ FreeIn(pre_db, Requested.start_time))
        => /\ calendar_db = Append(pre_db, Requested)
           /\ Outcome = "Scheduled"

\* An event was booked between two stored events, touching both.
C10_Witness ==
    /\ Extracted
    /\ \E i, j \in 1..Len(pre_db) :
           /\ Requested.start_time = pre_db[i].start_time + Hour
           /\ Requested.start_time + Hour = pre_db[j].start_time
    /\ calendar_db = Append(pre_db, Requested)

IsViewEvents == call.op = "view_events"

\* C11: view_events does not modify calendar_db, and two calls of it with no
\* add_event call in between print identical sequences.
C11_ReadOnlyRepeatable ==
    IsViewEvents =>
        /\ calendar_db = pre_db
        /\ prev.op = "view_events" => stdout = prev.listing

\* Two listings in a row of a store that is not in order of start_time.
C11_Witness ==
    /\ IsViewEvents
    /\ prev.op = "view_events"
    /\ Len(calendar_db) = 3
    /\ calendar_db # sorted_by_start_time(calendar_db)
    /\ stdout = prev.listing

\* C13: is_slot_free returns false exactly when some stored event e has
\* new_start < e.start + duration and e.start < new_start + duration; it
\* returns true on the empty store; and the store is as it was after a call
\* in which is_slot_free ran (on the request and on the probed candidates).
C13_SlotFreeIffNoOverlap ==
    /\ \A t \in 0..(MaxTime + 4 * Hour) :
           is_slot_free(calendar_db, CalendarEvent("probe", t, <<>>), Hour)
               <=> ~(\E i \in 1..Len(calendar_db) :
                        /\ t < calendar_db[i].start_time + Hour
                        /\ calendar_db[i].start_time < t + Hour)
    /\ calendar_db = <<>> =>
           \A t \in Time :
               is_slot_free(calendar_db, CalendarEvent("probe", t, <<>>), Hour)
    /\ Extracted =>
           /\ (Outcome = "Scheduled")
                  <=> ~(\E i \in 1..Len(pre_db) :
                           /\ Requested.start_time < pre_db[i].start_time + Hour
                           /\ pre_db[i].start_time < Requested.start_time + Hour)
           /\ Outcome # "Scheduled" => calendar_db = pre_db

\* A request was turned away that overlaps the last of three stored events
\* and neither of the two the loop passes first.
C13_Witness ==
    /\ Extracted
    /\ Len(pre_db) = 3
    /\ ~Overlap(Requested.start_time, pre_db[1].start_time)
    /\ ~Overlap(Requested.start_time, pre_db[2].start_time)
    /\ Overlap(Requested.start_time, pre_db[3].start_time)
    /\ Outcome # "Scheduled"
    /\ calendar_db = pre_db

\* C15: when a call reports a suggested time t, a request for start time t
\* made by the very next call is Scheduled and inserted.
C15_SuggestionIsBookable ==
    (IsAddEvent /\ "suggested" \in DOMAIN prev) =>
        /\ Extracted
        /\ Requested.start_time = prev.suggested
        /\ Outcome = "Scheduled"
        /\ calendar_db = Append(pre_db, Requested)

\* A suggested slot between two stored events was requested and booked.
C15_Witness ==
    /\ IsAddEvent
    /\ "suggested" \in DOMAIN prev
    /\ Len(pre_db) = 2
    /\ \E i, j \in 1..Len(pre_db) :
           pre_db[i].start_time < prev.suggested
               /\ prev.suggested < pre_db[j].start_time
    /\ calendar_db = Append(pre_db, Requested)

\* p is a prefix of q.
IsPrefix(p, q) ==
    Len(p) <= Len(q) /\ SubSeq(q, 1, Len(p)) = p

\* C16: calendar_db is append-only: the store before a call (add_event or
\* view_events) is a prefix of the store after it, and one add_event call
\* lengthens it by at most one event.
C16_AppendOnly ==
    /\ IsPrefix(pre_db, calendar_db)
    /\ Len(calendar_db) <= Len(pre_db) + 1
    /\ IsViewEvents => Len(calendar_db) = Len(pre_db)

\* An event was appended, right after a listing, behind two events that
\* start later than it does.
C16_Witness ==
    /\ Extracted
    /\ prev.op = "view_events"
    /\ Len(pre_db) = 2
    /\ calendar_db = Append(pre_db, Requested)
    /\ \A i \in 1..Len(pre_db) :
           Requested.start_time < pre_db[i].start_time

\* The one-to-one maps of 1..n onto itself.
Perms(n) ==
    { p \in [1..n -> 1..n] : \A i, j \in 1..n : i # j => p[i] # p[j] }

\* C12: the listing holds every event of the store exactly once, in
\* ascending order of start_time, events of equal start_time in the order
\* in which they stand in the store.
C12_ListingSortedStable ==
    IsViewEvents =>
        IF pre_db = <<>>
        THEN stdout = << [msg |-> "No events scheduled."] >>
        ELSE /\ Len(stdout) = Len(pre_db)
             /\ \E p \in Perms(Len(pre_db)) :
                    /\ \A k \in 1..Len(pre_db) :
                           stdout[k] = listing_line(pre_db[p[k]])
                    /\ \A k, l \in 1..Len(pre_db) :
                           k < l =>
                               \/ pre_db[p[k]].start_time
                                      < pre_db[p[l]].start_time
                               \/ /\ pre_db[p[k]].start_time
                                         = pre_db[p[l]].start_time
                                  /\ p[k] < p[l]

\* A list was listed whose first event starts last and whose other two
\* events start together under different names.
C12_Witness ==
    /\ IsViewEvents
    /\ Len(pre_db) = 3
    /\ pre_db[1].start_time > pre_db[2].start_time
    /\ pre_db[2].start_time = pre_db[3].start_time
    /\ pre_db[2].name # pre_db[3].name
    /\ Len(stdout) = 3
    /\ stdout[1].name = pre_db[2].name

\* Two events of the store overlap.
StoreOverlaps ==
    \E i, j \in 1..Len(calendar_db) :
        i # j /\ Overlap(calendar_db[i].start_time, calendar_db[j].start_time)

\* C14: with lines 72-73 as one critical section per request, no two
\* stored events overlap under any interleaving of two requests; with the
\* scan and the append as separate steps, two overlapping events can be
\* stored, and only by two requests that both scanned the store before
\* either appended.
C14_CheckThenAct ==
    /\ threads.locked => ~StoreOverlaps
    /\ StoreOverlaps =>
           /\ ~threads.locked
           /\ \A i \in Threads :
                  /\ threads.req[i].pc = "inserted"
                  /\ threads.req[i].seen = 0

\* Without the lock both requests saw an empty store and both appended:
\* the store holds two overlapping events.
C14_Witness ==
    /\ ~threads.locked
    /\ \A i \in Threads :
           threads.req[i].pc = "inserted" /\ threads.req[i].seen = 0
    /\ Len(calendar_db) = 2
    /\ StoreOverlaps
    /\ calendar_db[1].start_time # calendar_db[2].start_time

====
